---- MODULE Spec2Model ----
(***************************************************************************)
(* Model of the banking Front End controller (BankingSystem) with its      *)
(* Account, Transaction and Validator collaborators.                       *)
(*                                                                         *)
(* Representation:                                                         *)
(*  - a Python str is a sequence of one-character strings, so that len,     *)
(*    zfill, slicing and int() act on it as they do in the code;            *)
(*  - a money amount (a Python float with two decimals) is an integer       *)
(*    number of cents: 500.00 is 50000;                                     *)
(*  - Python's None for an optional str is the one-element sequence None,   *)
(*    which no character string equals;                                     *)
(*  - a list of objects is a sequence of records, an object reference is    *)
(*    its index in the list (0 for None);                                   *)
(*  - what the last call on the controller returned is the variable result: *)
(*    the (bool, str) of a process_* method, NoResult for load_accounts;    *)
(*    a message built with an f-string keeps its template text in msg and   *)
(*    the interpolated values in args.                                      *)
(***************************************************************************)
EXTENDS Integers, Sequences, FiniteSets, TLC

VARIABLES accounts, transactions, is_logged_in, is_admin, current_user,
          session_withdrawals, session_transfers, session_paybills, result

vars == <<accounts, transactions, is_logged_in, is_admin, current_user,
          session_withdrawals, session_transfers, session_paybills, result>>

\* The three per-session running totals.
totals == <<session_withdrawals, session_transfers, session_paybills>>

\* The login part of the controller state.
login == <<is_logged_in, is_admin, current_user>>

\* The model explores transactions until the log holds MaxLog records.
MaxLog == 2

----------------------------------------------------------------------------
\* Strings used as inputs

None == <<"None">>
EmptyStr == <<>>

Alice == <<"A", "l", "i", "c", "e">>
Bob == <<"B", "o", "b">>
LongName == [i \in 1..21 |-> "x"]

N1 == <<"0", "0", "0", "0", "1">>
N2 == <<"0", "0", "0", "0", "2">>
N7 == <<"0", "0", "0", "0", "7">>
NX == <<"X", "0", "2">>

Digits == <<"0", "1", "2", "3", "4", "5", "6", "7", "8", "9">>

----------------------------------------------------------------------------
\* account.py

Account(account_number, holder_name, status, balance) ==
  [account_number |-> account_number, holder_name |-> holder_name,
   status |-> status, balance |-> balance]

\* The value standing for "no account" (Python None) where an Account is expected.
NoAccount == Account(None, None, "None", 0)

is_disabled(account) == account.status = "D"

Account_disable(account) == [account EXCEPT !.status = "D"]

\* Account.withdraw that checks the balance but debits twice.
Account_withdraw_DoubleDebit(account, amount) ==
  IF account.balance < amount THEN account
  ELSE [account EXCEPT !.balance = @ - amount - amount]

Account_withdraw(account, amount) ==
  IF account.balance < amount THEN account
  ELSE [account EXCEPT !.balance = @ - amount]

\* Account.deposit that overwrites the balance instead of adding to it.
Account_deposit_Overwrite(account, amount) == [account EXCEPT !.balance = amount]

Account_deposit(account, amount) == [account EXCEPT !.balance = @ + amount]

----------------------------------------------------------------------------
\* transaction.py

CODES == [WITHDRAWAL |-> "01", TRANSFER |-> "02", PAYBILL |-> "03",
          DEPOSIT |-> "04", CREATE |-> "05", DELETE |-> "06",
          DISABLE |-> "07", CHANGEPLAN |-> "08", END_SESSION |-> "00"]

Transaction(code, account_holder_name, account_number, amount, misc) ==
  [code |-> code, account_holder_name |-> account_holder_name,
   account_number |-> account_number, amount |-> amount, misc |-> misc]

Blank2 == <<" ", " ">>

\* str.zfill(width): zeros on the left, after a leading sign if there is one.
zfill(s, width) ==
  IF Len(s) >= width THEN s
  ELSE LET zeros == [i \in 1..(width - Len(s)) |-> "0"]
       IN IF Len(s) > 0 /\ s[1] \in {"+", "-"}
          THEN <<s[1]>> \o zeros \o SubSeq(s, 2, Len(s))
          ELSE zeros \o s

\* s[-2:]
LastTwo(s) == IF Len(s) <= 2 THEN s ELSE SubSeq(s, Len(s) - 1, Len(s))

create_withdrawal(name, account_number, amount) ==
  Transaction(CODES.WITHDRAWAL, name, account_number, amount, Blank2)

\* create_transfer taking the first two characters of the padded number.
create_transfer_FirstTwo(name, from_account, to_account, amount) ==
  Transaction(CODES.TRANSFER, name, from_account, amount,
              SubSeq(zfill(to_account, 5), 1, 2))

create_transfer(name, from_account, to_account, amount) ==
  Transaction(CODES.TRANSFER, name, from_account, amount,
              LastTwo(zfill(to_account, 5)))

create_paybill(name, account_number, amount, company) ==
  Transaction(CODES.PAYBILL, name, account_number, amount, company)

create_deposit(name, account_number, amount) ==
  Transaction(CODES.DEPOSIT, name, account_number, amount, Blank2)

create_account(name, account_number, initial_balance) ==
  Transaction(CODES.CREATE, name, account_number, initial_balance, Blank2)

create_delete(name, account_number) ==
  Transaction(CODES.DELETE, name, account_number, 0, Blank2)

create_disable(name, account_number) ==
  Transaction(CODES.DISABLE, name, account_number, 0, Blank2)

create_changeplan(name, account_number) ==
  Transaction(CODES.CHANGEPLAN, name, account_number, 0, Blank2)

----------------------------------------------------------------------------
\* validator.py

MAX_WITHDRAWAL_STANDARD == 50000
MAX_TRANSFER_STANDARD == 100000
MAX_PAYBILL_STANDARD == 200000
MAX_ACCOUNT_BALANCE == 9999999
MAX_NAME_LENGTH == 20
EC == <<"E", "C">>
CQ == <<"C", "Q">>
FI == <<"F", "I">>
VALID_COMPANIES == {EC, CQ, FI}

\* A validator's "no error" return value (Python None).
NoError == "<None>"

\* validate_withdrawal without the disabled-account check.
validate_withdrawal_NoDisabledCheck(account, amount, admin, session_total) ==
  IF account = NoAccount THEN "Account not found."
  ELSE IF amount <= 0 THEN "Amount must be positive."
  ELSE IF (~admin) /\ (session_total + amount > MAX_WITHDRAWAL_STANDARD)
       THEN "Maximum withdrawal per session is $500.00."
  ELSE IF account.balance < amount THEN "Insufficient funds."
  ELSE NoError

\* validate_withdrawal with the balance check before the cap check.
validate_withdrawal_FundsFirst(account, amount, admin, session_total) ==
  IF account = NoAccount THEN "Account not found."
  ELSE IF is_disabled(account) THEN "Account is disabled."
  ELSE IF amount <= 0 THEN "Amount must be positive."
  ELSE IF account.balance < amount THEN "Insufficient funds."
  ELSE IF (~admin) /\ (session_total + amount > MAX_WITHDRAWAL_STANDARD)
       THEN "Maximum withdrawal per session is $500.00."
  ELSE NoError

\* validate_withdrawal with an exclusive cap: a total of exactly 500.00 is
\* refused.
validate_withdrawal_CapExclusive(account, amount, admin, session_total) ==
  IF account = NoAccount THEN "Account not found."
  ELSE IF is_disabled(account) THEN "Account is disabled."
  ELSE IF amount <= 0 THEN "Amount must be positive."
  ELSE IF (~admin) /\ (session_total + amount >= MAX_WITHDRAWAL_STANDARD)
       THEN "Maximum withdrawal per session is $500.00."
  ELSE IF account.balance < amount THEN "Insufficient funds."
  ELSE NoError

\* validate_withdrawal with the cap compared against the single amount, not
\* the running total.
validate_withdrawal_CapPerCall(account, amount, admin, session_total) ==
  IF account = NoAccount THEN "Account not found."
  ELSE IF is_disabled(account) THEN "Account is disabled."
  ELSE IF amount <= 0 THEN "Amount must be positive."
  ELSE IF (~admin) /\ (amount > MAX_WITHDRAWAL_STANDARD)
       THEN "Maximum withdrawal per session is $500.00."
  ELSE IF account.balance < amount THEN "Insufficient funds."
  ELSE NoError

validate_withdrawal(account, amount, admin, session_total) ==
  IF account = NoAccount THEN "Account not found."
  ELSE IF is_disabled(account) THEN "Account is disabled."
  ELSE IF amount <= 0 THEN "Amount must be positive."
  ELSE IF (~admin) /\ (session_total + amount > MAX_WITHDRAWAL_STANDARD)
       THEN "Maximum withdrawal per session is $500.00."
  ELSE IF account.balance < amount THEN "Insufficient funds."
  ELSE NoError

\* validate_transfer with the cap applied to admin sessions too.
validate_transfer_CapForAdmin(source, target, amount, admin, session_total) ==
  IF source = NoAccount THEN "Source account not found."
  ELSE IF target = NoAccount THEN "Destination account not found."
  ELSE IF is_disabled(source) \/ is_disabled(target)
       THEN "Source or destination account is disabled."
  ELSE IF amount <= 0 THEN "Amount must be positive."
  ELSE IF session_total + amount > MAX_TRANSFER_STANDARD
       THEN "Maximum transfer per session is $1000.00."
  ELSE IF source.balance < amount THEN "Insufficient funds in source account."
  ELSE NoError

\* validate_transfer that checks the status of the source only.
validate_transfer_TargetUnchecked(source, target, amount, admin, session_total) ==
  IF source = NoAccount THEN "Source account not found."
  ELSE IF target = NoAccount THEN "Destination account not found."
  ELSE IF is_disabled(source)
       THEN "Source or destination account is disabled."
  ELSE IF amount <= 0 THEN "Amount must be positive."
  ELSE IF (~admin) /\ (session_total + amount > MAX_TRANSFER_STANDARD)
       THEN "Maximum transfer per session is $1000.00."
  ELSE IF source.balance < amount THEN "Insufficient funds in source account."
  ELSE NoError

validate_transfer(source, target, amount, admin, session_total) ==
  IF source = NoAccount THEN "Source account not found."
  ELSE IF target = NoAccount THEN "Destination account not found."
  ELSE IF is_disabled(source) \/ is_disabled(target)
       THEN "Source or destination account is disabled."
  ELSE IF amount <= 0 THEN "Amount must be positive."
  ELSE IF (~admin) /\ (session_total + amount > MAX_TRANSFER_STANDARD)
       THEN "Maximum transfer per session is $1000.00."
  ELSE IF source.balance < amount THEN "Insufficient funds in source account."
  ELSE NoError

\* validate_paybill without the balance check.
validate_paybill_NoFundsCheck(account, amount, company, admin, session_total) ==
  IF account = NoAccount THEN "Account not found."
  ELSE IF is_disabled(account) THEN "Account is disabled."
  ELSE IF company \notin VALID_COMPANIES
       THEN "Invalid company code. Valid codes: EC, CQ, FI."
  ELSE IF amount <= 0 THEN "Amount must be positive."
  ELSE IF (~admin) /\ (session_total + amount > MAX_PAYBILL_STANDARD)
       THEN "Maximum paybill per session is $2000.00."
  ELSE NoError

validate_paybill(account, amount, company, admin, session_total) ==
  IF account = NoAccount THEN "Account not found."
  ELSE IF is_disabled(account) THEN "Account is disabled."
  ELSE IF company \notin VALID_COMPANIES
       THEN "Invalid company code. Valid codes: EC, CQ, FI."
  ELSE IF amount <= 0 THEN "Amount must be positive."
  ELSE IF (~admin) /\ (session_total + amount > MAX_PAYBILL_STANDARD)
       THEN "Maximum paybill per session is $2000.00."
  ELSE IF account.balance < amount THEN "Insufficient funds."
  ELSE NoError

validate_deposit(account, amount) ==
  IF account = NoAccount THEN "Account not found."
  ELSE IF is_disabled(account) THEN "Account is disabled."
  ELSE IF amount <= 0 THEN "Amount must be positive."
  ELSE NoError

validate_create(holder_name, initial_balance, account_exists) ==
  IF Len(holder_name) > MAX_NAME_LENGTH
  THEN "Account holder name must be at most 20 characters."
  ELSE IF initial_balance < 0 THEN "Initial balance cannot be negative."
  ELSE IF initial_balance > MAX_ACCOUNT_BALANCE
       THEN "Maximum account balance is $99999.99."
  ELSE IF account_exists THEN "Account number already exists."
  ELSE NoError

validate_account_exists(account) ==
  IF account = NoAccount THEN "Account not found." ELSE NoError

\* validate_disable without the already-disabled check.
validate_disable_NoDisabledCheck(account) ==
  IF account = NoAccount THEN "Account not found."
  ELSE NoError

validate_disable(account) ==
  IF account = NoAccount THEN "Account not found."
  ELSE IF is_disabled(account) THEN "Account is already disabled."
  ELSE NoError

----------------------------------------------------------------------------
\* banking_system.py

Ok(msg, args) == [ok |-> TRUE, msg |-> msg, args |-> args]
Fail(msg) == [ok |-> FALSE, msg |-> msg, args |-> <<>>]

\* The value of result when the last call returned nothing (load_accounts), and
\* before any call.
NoResult == [ok |-> FALSE, msg |-> "<None>", args |-> <<>>]

\* Index of the first account with this number, 0 for None.
find_account_by_number(account_number) ==
  LET hits == {i \in 1..Len(accounts) : accounts[i].account_number = account_number}
  IN IF hits = {} THEN 0 ELSE CHOOSE i \in hits : \A j \in hits : i <= j

\* Index of the first account with this holder name and this number, 0 for None.
find_user_account(holder_name, account_number) ==
  LET hits == {i \in 1..Len(accounts) :
                 /\ accounts[i].holder_name = holder_name
                 /\ accounts[i].account_number = account_number}
  IN IF hits = {} THEN 0 ELSE CHOOSE i \in hits : \A j \in hits : i <= j

\* The account object a lookup returned.
AccountAt(i) == IF i = 0 THEN NoAccount ELSE accounts[i]

\* The owner taken from the holder_name argument whenever one is passed.
Owner_HolderFirst(holder_name) ==
  IF holder_name \notin {None, EmptyStr} THEN holder_name
  ELSE IF current_user \in {None, EmptyStr} THEN EmptyStr ELSE current_user

\* owner = holder_name if self.is_admin else (self.current_user or '')
Owner(holder_name) ==
  IF is_admin THEN holder_name
  ELSE IF current_user \in {None, EmptyStr} THEN EmptyStr ELSE current_user

\* int(s) of a string of decimal digits; -1 stands for ValueError.
RECURSIVE ParseInt(_)
ParseInt(s) ==
  IF s = <<>> THEN -1
  ELSE LET last == s[Len(s)]
           d == IF \E k \in 1..10 : Digits[k] = last
                THEN (CHOOSE k \in 1..10 : Digits[k] = last) - 1 ELSE -1
           init == SubSeq(s, 1, Len(s) - 1)
           hi == IF init = <<>> THEN 0 ELSE ParseInt(init)
       IN IF d = -1 \/ hi = -1 THEN -1 ELSE 10 * hi + d

\* str(n) for n >= 0
RECURSIVE IntToStr(_)
IntToStr(n) ==
  IF n < 10 THEN <<Digits[n + 1]>>
  ELSE IntToStr(n \div 10) \o <<Digits[(n % 10) + 1]>>

RECURSIVE MaxNumber(_, _)
MaxNumber(i, max_number) ==
  IF i > Len(accounts) THEN max_number
  ELSE LET value == ParseInt(accounts[i].account_number)
       IN MaxNumber(i + 1, IF value > max_number THEN value ELSE max_number)

\* _generate_account_number numbering by the count of accounts instead of the
\* largest number.
generate_account_number_ByCount == zfill(IntToStr(Len(accounts) + 1), 5)

generate_account_number == zfill(IntToStr(MaxNumber(1, 0) + 1), 5)

----------------------------------------------------------------------------
\* transaction.py and file_handler.py: the transaction file

\* str.ljust(width)
ljust(s, width) ==
  IF Len(s) >= width THEN s ELSE s \o [i \in 1..(width - Len(s)) |-> " "]

\* s[:n]
Truncate(s, n) == IF Len(s) <= n THEN s ELSE SubSeq(s, 1, n)

\* f"{amount:.2f}" of an amount held in cents
Format2f(amount) ==
  LET cents == IF amount < 0 THEN 0 - amount ELSE amount
      digits == IntToStr(cents \div 100) \o <<".">>
                  \o <<Digits[((cents % 100) \div 10) + 1], Digits[(cents % 10) + 1]>>
  IN IF amount < 0 THEN <<"-">> \o digits ELSE digits

\* The two characters of a transaction code.
CodeChars(code) ==
  LET k == CHOOSE k \in 1..10 : code = "0" \o Digits[k]
  IN <<"0", Digits[k]>>

to_file_string(t) ==
  LET name == Truncate(ljust(t.account_holder_name, 20), 20)
      account_num == zfill(t.account_number, 5)
      amount == zfill(Format2f(t.amount), 8)
      misc == Truncate(ljust(t.misc, 2), 2)
  IN CodeChars(t.code) \o <<" ">> \o name \o <<" ">> \o account_num
       \o <<" ">> \o amount \o misc

create_end_session ==
  Transaction(CODES.END_SESSION, [i \in 1..20 |-> " "],
              <<"0", "0", "0", "0", "0">>, 0, Blank2)

\* '\n'.join(lines)
RECURSIVE Join(_)
Join(lines) ==
  IF lines = <<>> THEN <<>>
  ELSE IF Len(lines) = 1 THEN lines[1]
  ELSE lines[1] \o <<"\n">> \o Join(Tail(lines))

\* FileHandler.generate_transaction_file without the end-of-session record.
FileHandler_generate_transaction_file_NoEndSession(txs) ==
  LET lines == [k \in 1..Len(txs) |-> to_file_string(txs[k])]
  IN Join(lines) \o <<"\n">>

FileHandler_generate_transaction_file(txs) ==
  LET lines == [k \in 1..Len(txs) |-> to_file_string(txs[k])]
  IN Join(Append(lines, to_file_string(create_end_session))) \o <<"\n">>

----------------------------------------------------------------------------
\* banking_system.py: the operations

\* The account list parse_accounts_file hands to load_accounts: two holders,
\* a number shared by two holders, a holder with two numbers, a disabled
\* account, a repeated record, a short number that is not numeric and ends
\* like 00002, and the largest number, 00007, on a disabled account.
AccountFiles ==
  { <<Account(N1, Alice, "A", 230000), Account(N2, Bob, "A", 30000),
      Account(N2, Alice, "D", 20000), Account(N1, Alice, "A", 20000),
      Account(NX, Bob, "A", 10000), Account(N7, Bob, "D", 10000)>> }

load_accounts(file_accounts) ==
  /\ accounts' = file_accounts
  /\ result' = NoResult
  /\ UNCHANGED <<transactions, login, totals>>

\* process_login without the already-logged-in check.
process_login_NoGuard(mode, user_name) ==
  IF mode = "admin"
  THEN /\ is_logged_in' = TRUE
       /\ is_admin' = TRUE
       /\ current_user' = <<"A", "d", "m", "i", "n">>
       /\ result' = Ok("Admin session started.", <<>>)
       /\ UNCHANGED <<accounts, transactions, totals>>
  ELSE IF mode = "standard"
  THEN IF user_name \in {None, EmptyStr}
       THEN /\ result' = Fail("Account holder name required for standard login.")
            /\ UNCHANGED <<accounts, transactions, login, totals>>
       ELSE /\ is_logged_in' = TRUE
            /\ is_admin' = FALSE
            /\ current_user' = user_name
            /\ result' = Ok("Standard user {user_name} logged in.", <<user_name>>)
            /\ UNCHANGED <<accounts, transactions, totals>>
  ELSE /\ result' = Fail("Invalid login mode. Use \"standard\" or \"admin\".")
       /\ UNCHANGED <<accounts, transactions, login, totals>>

process_login(mode, user_name) ==
  IF is_logged_in
  THEN /\ result' = Fail("Already logged in. Please logout first.")
       /\ UNCHANGED <<accounts, transactions, login, totals>>
  ELSE IF mode = "admin"
  THEN /\ is_logged_in' = TRUE
       /\ is_admin' = TRUE
       /\ current_user' = <<"A", "d", "m", "i", "n">>
       /\ result' = Ok("Admin session started.", <<>>)
       /\ UNCHANGED <<accounts, transactions, totals>>
  ELSE IF mode = "standard"
  THEN IF user_name \in {None, EmptyStr}
       THEN /\ result' = Fail("Account holder name required for standard login.")
            /\ UNCHANGED <<accounts, transactions, login, totals>>
       ELSE /\ is_logged_in' = TRUE
            /\ is_admin' = FALSE
            /\ current_user' = user_name
            /\ result' = Ok("Standard user {user_name} logged in.", <<user_name>>)
            /\ UNCHANGED <<accounts, transactions, totals>>
  ELSE /\ result' = Fail("Invalid login mode. Use \"standard\" or \"admin\".")
       /\ UNCHANGED <<accounts, transactions, login, totals>>

\* process_logout without the reset of the three session totals.
process_logout_KeepsTotals ==
  IF ~is_logged_in
  THEN /\ result' = Fail("Not logged in.")
       /\ UNCHANGED <<accounts, transactions, login, totals>>
  ELSE /\ is_logged_in' = FALSE
       /\ is_admin' = FALSE
       /\ current_user' = None
       /\ result' = Ok("Session ended. Transaction file ready for download.", <<>>)
       /\ UNCHANGED <<accounts, transactions, totals>>

process_logout ==
  IF ~is_logged_in
  THEN /\ result' = Fail("Not logged in.")
       /\ UNCHANGED <<accounts, transactions, login, totals>>
  ELSE /\ is_logged_in' = FALSE
       /\ is_admin' = FALSE
       /\ current_user' = None
       /\ session_withdrawals' = 0
       /\ session_transfers' = 0
       /\ session_paybills' = 0
       /\ result' = Ok("Session ended. Transaction file ready for download.", <<>>)
       /\ UNCHANGED <<accounts, transactions>>

\* The record inserted at the head of the log instead of appended.
Append_transaction_AtHead(t) == transactions' = <<t>> \o transactions

\* self.transactions.append(t)
Append_transaction(t) == transactions' = Append(transactions, t)

\* process_withdrawal appending its record before the validation result is used.
process_withdrawal_LogsRejected(account_number, amount, holder_name) ==
  IF ~is_logged_in
  THEN /\ result' = Fail("Must be logged in to perform transactions.")
       /\ UNCHANGED <<accounts, transactions, login, totals>>
  ELSE LET owner == Owner(holder_name)
           a == find_user_account(owner, account_number)
           error == validate_withdrawal(AccountAt(a), amount, is_admin,
                                        session_withdrawals)
       IN IF error # NoError
          THEN /\ result' = Fail(error)
               /\ Append_transaction(create_withdrawal(owner, account_number,
                                                       amount))
               /\ UNCHANGED <<accounts, login, totals>>
          ELSE /\ accounts' = [accounts EXCEPT ![a] = Account_withdraw(@, amount)]
               /\ session_withdrawals' = session_withdrawals + amount
               /\ Append_transaction(create_withdrawal(owner, account_number, amount))
               /\ result' = Ok("Withdrawal of ${amount:.2f} successful. New balance: ${balance:.2f}",
                               <<amount, accounts'[a].balance>>)
               /\ UNCHANGED <<login, session_transfers, session_paybills>>

process_withdrawal(account_number, amount, holder_name) ==
  IF ~is_logged_in
  THEN /\ result' = Fail("Must be logged in to perform transactions.")
       /\ UNCHANGED <<accounts, transactions, login, totals>>
  ELSE LET owner == Owner(holder_name)
           a == find_user_account(owner, account_number)
           error == validate_withdrawal(AccountAt(a), amount, is_admin,
                                        session_withdrawals)
       IN IF error # NoError
          THEN /\ result' = Fail(error)
               /\ UNCHANGED <<accounts, transactions, login, totals>>
          ELSE /\ accounts' = [accounts EXCEPT ![a] = Account_withdraw(@, amount)]
               /\ session_withdrawals' = session_withdrawals + amount
               /\ Append_transaction(create_withdrawal(owner, account_number, amount))
               /\ result' = Ok("Withdrawal of ${amount:.2f} successful. New balance: ${balance:.2f}",
                               <<amount, accounts'[a].balance>>)
               /\ UNCHANGED <<login, session_transfers, session_paybills>>

process_transfer(source_number, target_number, amount, holder_name) ==
  IF ~is_logged_in
  THEN /\ result' = Fail("Must be logged in to perform transactions.")
       /\ UNCHANGED <<accounts, transactions, login, totals>>
  ELSE LET owner == Owner(holder_name)
           s == find_user_account(owner, source_number)
           t == find_account_by_number(target_number)
           error == validate_transfer(AccountAt(s), AccountAt(t), amount,
                                      is_admin, session_transfers)
           withdrawn == [accounts EXCEPT ![s] = Account_withdraw(@, amount)]
       IN IF error # NoError
          THEN /\ result' = Fail(error)
               /\ UNCHANGED <<accounts, transactions, login, totals>>
          ELSE /\ accounts' = [withdrawn EXCEPT ![t] = Account_deposit(@, amount)]
               /\ session_transfers' = session_transfers + amount
               /\ Append_transaction(create_transfer(owner, source_number,
                                                     target_number, amount))
               /\ result' = Ok("Transfer of ${amount:.2f} successful.", <<amount>>)
               /\ UNCHANGED <<login, session_withdrawals, session_paybills>>

\* process_paybill adding the amount to the withdrawal total.
process_paybill_CountsAsWithdrawal(account_number, amount, company, holder_name) ==
  IF ~is_logged_in
  THEN /\ result' = Fail("Must be logged in to perform transactions.")
       /\ UNCHANGED <<accounts, transactions, login, totals>>
  ELSE LET owner == Owner(holder_name)
           a == find_user_account(owner, account_number)
           error == validate_paybill(AccountAt(a), amount, company, is_admin,
                                     session_paybills)
       IN IF error # NoError
          THEN /\ result' = Fail(error)
               /\ UNCHANGED <<accounts, transactions, login, totals>>
          ELSE /\ accounts' = [accounts EXCEPT ![a] = Account_withdraw(@, amount)]
               /\ session_withdrawals' = session_withdrawals + amount
               /\ Append_transaction(create_paybill(owner, account_number,
                                                    amount, company))
               /\ result' = Ok("Bill payment of ${amount:.2f} to {company} successful.",
                               <<amount, company>>)
               /\ UNCHANGED <<login, session_paybills, session_transfers>>

process_paybill(account_number, amount, company, holder_name) ==
  IF ~is_logged_in
  THEN /\ result' = Fail("Must be logged in to perform transactions.")
       /\ UNCHANGED <<accounts, transactions, login, totals>>
  ELSE LET owner == Owner(holder_name)
           a == find_user_account(owner, account_number)
           error == validate_paybill(AccountAt(a), amount, company, is_admin,
                                     session_paybills)
       IN IF error # NoError
          THEN /\ result' = Fail(error)
               /\ UNCHANGED <<accounts, transactions, login, totals>>
          ELSE /\ accounts' = [accounts EXCEPT ![a] = Account_withdraw(@, amount)]
               /\ session_paybills' = session_paybills + amount
               /\ Append_transaction(create_paybill(owner, account_number,
                                                    amount, company))
               /\ result' = Ok("Bill payment of ${amount:.2f} to {company} successful.",
                               <<amount, company>>)
               /\ UNCHANGED <<login, session_withdrawals, session_transfers>>

\* process_deposit that also applies the deposit to the in-memory balance.
process_deposit_Applied(account_number, amount, holder_name) ==
  IF ~is_logged_in
  THEN /\ result' = Fail("Must be logged in to perform transactions.")
       /\ UNCHANGED <<accounts, transactions, login, totals>>
  ELSE LET owner == Owner(holder_name)
           a == find_user_account(owner, account_number)
           error == validate_deposit(AccountAt(a), amount)
       IN IF error # NoError
          THEN /\ result' = Fail(error)
               /\ UNCHANGED <<accounts, transactions, login, totals>>
          ELSE /\ accounts' = [accounts EXCEPT ![a] = Account_deposit(@, amount)]
               /\ Append_transaction(create_deposit(owner, account_number, amount))
               /\ result' = Ok("Deposit of ${amount:.2f} accepted (available next session).",
                               <<amount>>)
               /\ UNCHANGED <<login, totals>>

process_deposit(account_number, amount, holder_name) ==
  IF ~is_logged_in
  THEN /\ result' = Fail("Must be logged in to perform transactions.")
       /\ UNCHANGED <<accounts, transactions, login, totals>>
  ELSE LET owner == Owner(holder_name)
           a == find_user_account(owner, account_number)
           error == validate_deposit(AccountAt(a), amount)
       IN IF error # NoError
          THEN /\ result' = Fail(error)
               /\ UNCHANGED <<accounts, transactions, login, totals>>
          ELSE /\ Append_transaction(create_deposit(owner, account_number, amount))
               /\ result' = Ok("Deposit of ${amount:.2f} accepted (available next session).",
                               <<amount>>)
               /\ UNCHANGED <<accounts, login, totals>>

process_create(holder_name, initial_balance) ==
  IF ~is_logged_in
  THEN /\ result' = Fail("Must be logged in to perform transactions.")
       /\ UNCHANGED <<accounts, transactions, login, totals>>
  ELSE IF ~is_admin
  THEN /\ result' = Fail("Create account is a privileged transaction. Admin access required.")
       /\ UNCHANGED <<accounts, transactions, login, totals>>
  ELSE LET new_number == generate_account_number
           exists == find_account_by_number(new_number) # 0
           error == validate_create(holder_name, initial_balance, exists)
       IN IF error # NoError
          THEN /\ result' = Fail(error)
               /\ UNCHANGED <<accounts, transactions, login, totals>>
          ELSE /\ Append_transaction(create_account(holder_name, new_number,
                                                    initial_balance))
               /\ result' = Ok("Account {new_number} created for {holder_name} (available next session).",
                               <<new_number, holder_name>>)
               /\ UNCHANGED <<accounts, login, totals>>

\* process_delete that removes every account with the number, whoever holds it.
process_delete_ByNumber(holder_name, account_number) ==
  IF ~is_logged_in
  THEN /\ result' = Fail("Must be logged in to perform transactions.")
       /\ UNCHANGED <<accounts, transactions, login, totals>>
  ELSE IF ~is_admin
  THEN /\ result' = Fail("Delete account is a privileged transaction. Admin access required.")
       /\ UNCHANGED <<accounts, transactions, login, totals>>
  ELSE LET a == find_user_account(holder_name, account_number)
           error == validate_account_exists(AccountAt(a))
           Keep(acct) == ~(acct.account_number = account_number)
       IN IF error # NoError
          THEN /\ result' = Fail(error)
               /\ UNCHANGED <<accounts, transactions, login, totals>>
          ELSE /\ accounts' = SelectSeq(accounts, Keep)
               /\ Append_transaction(create_delete(holder_name, account_number))
               /\ result' = Ok("Account {account_number} for {holder_name} deleted.",
                               <<account_number, holder_name>>)
               /\ UNCHANGED <<login, totals>>

process_delete(holder_name, account_number) ==
  IF ~is_logged_in
  THEN /\ result' = Fail("Must be logged in to perform transactions.")
       /\ UNCHANGED <<accounts, transactions, login, totals>>
  ELSE IF ~is_admin
  THEN /\ result' = Fail("Delete account is a privileged transaction. Admin access required.")
       /\ UNCHANGED <<accounts, transactions, login, totals>>
  ELSE LET a == find_user_account(holder_name, account_number)
           error == validate_account_exists(AccountAt(a))
           Keep(acct) == ~(acct.holder_name = holder_name
                           /\ acct.account_number = account_number)
       IN IF error # NoError
          THEN /\ result' = Fail(error)
               /\ UNCHANGED <<accounts, transactions, login, totals>>
          ELSE /\ accounts' = SelectSeq(accounts, Keep)
               /\ Append_transaction(create_delete(holder_name, account_number))
               /\ result' = Ok("Account {account_number} for {holder_name} deleted.",
                               <<account_number, holder_name>>)
               /\ UNCHANGED <<login, totals>>

\* process_disable without the admin check.
process_disable_NoAdminCheck(holder_name, account_number) ==
  IF ~is_logged_in
  THEN /\ result' = Fail("Must be logged in to perform transactions.")
       /\ UNCHANGED <<accounts, transactions, login, totals>>
  ELSE LET a == find_user_account(holder_name, account_number)
           error == validate_disable(AccountAt(a))
       IN IF error # NoError
          THEN /\ result' = Fail(error)
               /\ UNCHANGED <<accounts, transactions, login, totals>>
          ELSE /\ accounts' = [accounts EXCEPT ![a] = Account_disable(@)]
               /\ Append_transaction(create_disable(holder_name, account_number))
               /\ result' = Ok("Account {account_number} for {holder_name} disabled.",
                               <<account_number, holder_name>>)
               /\ UNCHANGED <<login, totals>>

process_disable(holder_name, account_number) ==
  IF ~is_logged_in
  THEN /\ result' = Fail("Must be logged in to perform transactions.")
       /\ UNCHANGED <<accounts, transactions, login, totals>>
  ELSE IF ~is_admin
  THEN /\ result' = Fail("Disable account is a privileged transaction. Admin access required.")
       /\ UNCHANGED <<accounts, transactions, login, totals>>
  ELSE LET a == find_user_account(holder_name, account_number)
           error == validate_disable(AccountAt(a))
       IN IF error # NoError
          THEN /\ result' = Fail(error)
               /\ UNCHANGED <<accounts, transactions, login, totals>>
          ELSE /\ accounts' = [accounts EXCEPT ![a] = Account_disable(@)]
               /\ Append_transaction(create_disable(holder_name, account_number))
               /\ result' = Ok("Account {account_number} for {holder_name} disabled.",
                               <<account_number, holder_name>>)
               /\ UNCHANGED <<login, totals>>

\* process_changeplan without the logged-in check.
process_changeplan_NoLoginCheck(holder_name, account_number) ==
  IF ~is_admin
  THEN /\ result' = Fail("Change plan is a privileged transaction. Admin access required.")
       /\ UNCHANGED <<accounts, transactions, login, totals>>
  ELSE LET a == find_user_account(holder_name, account_number)
           error == validate_account_exists(AccountAt(a))
       IN IF error # NoError
          THEN /\ result' = Fail(error)
               /\ UNCHANGED <<accounts, transactions, login, totals>>
          ELSE /\ Append_transaction(create_changeplan(holder_name, account_number))
               /\ result' = Ok("Payment plan changed for account {account_number}.",
                               <<account_number>>)
               /\ UNCHANGED <<accounts, login, totals>>

process_changeplan(holder_name, account_number) ==
  IF ~is_logged_in
  THEN /\ result' = Fail("Must be logged in to perform transactions.")
       /\ UNCHANGED <<accounts, transactions, login, totals>>
  ELSE IF ~is_admin
  THEN /\ result' = Fail("Change plan is a privileged transaction. Admin access required.")
       /\ UNCHANGED <<accounts, transactions, login, totals>>
  ELSE LET a == find_user_account(holder_name, account_number)
           error == validate_account_exists(AccountAt(a))
       IN IF error # NoError
          THEN /\ result' = Fail(error)
               /\ UNCHANGED <<accounts, transactions, login, totals>>
          ELSE /\ Append_transaction(create_changeplan(holder_name, account_number))
               /\ result' = Ok("Payment plan changed for account {account_number}.",
                               <<account_number>>)
               /\ UNCHANGED <<accounts, login, totals>>

\* The value of result when the last call returned a string.
StrResult(content) == [ok |-> FALSE, msg |-> "<str>", args |-> <<content>>]

generate_transaction_file ==
  /\ result' = StrResult(FileHandler_generate_transaction_file(transactions))
  /\ UNCHANGED <<accounts, transactions, login, totals>>

----------------------------------------------------------------------------
\* Inputs of the operations

Modes == {"admin", "standard", "guest"}
UserNames == {Alice, Bob, EmptyStr}
HolderNames == {Alice, None}
Numbers == {N1, N2}
Targets == Numbers \cup {NX, N7}
WithdrawalAmounts == {0, 30000, 50000}
TransferAmounts == {0, 60000}
PaybillAmounts == {0, 150000, 210000}
DepositAmounts == {0, 20000}
Companies == {EC, <<"X", "X">>}
CreateNames == {Bob, LongName}
CreateBalances == {-1, 5000000, 10000000}

Init ==
  /\ accounts = <<>>
  /\ transactions = <<>>
  /\ is_logged_in = FALSE
  /\ is_admin = FALSE
  /\ current_user = None
  /\ session_withdrawals = 0
  /\ session_transfers = 0
  /\ session_paybills = 0
  /\ result = NoResult

\* The log is never emptied, so the exploration issues transactions only while
\* it holds fewer than MaxLog records.
LogOpen == Len(transactions) < MaxLog

Next ==
  \/ \E f \in AccountFiles : load_accounts(f)
  \/ \E m \in Modes, u \in UserNames : process_login(m, u)
  \/ process_logout
  \/ LogOpen /\ \E n \in Numbers, amt \in WithdrawalAmounts, h \in HolderNames :
       process_withdrawal(n, amt, h)
  \/ LogOpen /\ \E n \in Numbers, t \in Targets, amt \in TransferAmounts, h \in HolderNames :
       process_transfer(n, t, amt, h)
  \/ LogOpen /\ \E n \in Numbers, amt \in PaybillAmounts, c \in Companies, h \in HolderNames :
       process_paybill(n, amt, c, h)
  \/ LogOpen /\ \E n \in Numbers, amt \in DepositAmounts, h \in HolderNames :
       process_deposit(n, amt, h)
  \/ LogOpen /\ \E h \in CreateNames, b \in CreateBalances : process_create(h, b)
  \/ LogOpen /\ \E h \in HolderNames, n \in Numbers : process_delete(h, n)
  \/ LogOpen /\ \E h \in HolderNames, n \in Numbers : process_disable(h, n)
  \/ LogOpen /\ \E h \in HolderNames, n \in Numbers : process_changeplan(h, n)
  \/ generate_transaction_file

Spec == Init /\ [][Next]_vars

----------------------------------------------------------------------------
\* main.py: the calls the console makes

\* The login flow without the reading of the accounts file.
console_login_NoReload(file_accounts, mode, user_name) ==
  /\ ~is_logged_in
  /\ is_logged_in' = TRUE
  /\ is_admin' = (mode = "admin")
  /\ current_user' = IF mode = "admin" THEN <<"A", "d", "m", "i", "n">> ELSE user_name
  /\ result' = IF mode = "admin" THEN Ok("Admin session started.", <<>>)
               ELSE Ok("Standard user {user_name} logged in.", <<user_name>>)
  /\ UNCHANGED <<accounts, transactions, totals>>

\* The login flow: handle_command starts it only while logged out; the flow
\* reads the accounts file and hands it to load_accounts, then calls
\* process_login, which succeeds (the mode is admin or standard, and the name
\* is a non-empty input line).
console_login(file_accounts, mode, user_name) ==
  /\ ~is_logged_in
  /\ accounts' = file_accounts
  /\ is_logged_in' = TRUE
  /\ is_admin' = (mode = "admin")
  /\ current_user' = IF mode = "admin" THEN <<"A", "d", "m", "i", "n">> ELSE user_name
  /\ result' = IF mode = "admin" THEN Ok("Admin session started.", <<>>)
               ELSE Ok("Standard user {user_name} logged in.", <<user_name>>)
  /\ UNCHANGED <<transactions, totals>>

\* 'logout': process_logout, then write_transaction_file if it succeeded.
console_logout == process_logout

console_write_transaction_file ==
  /\ result = Ok("Session ended. Transaction file ready for download.", <<>>)
  /\ generate_transaction_file

\* flow_data.get('name'): asked for in admin sessions only.
FlowName(name) == IF is_admin THEN name ELSE None

ConsoleModes == {"admin", "standard"}
ConsoleNames == HolderNames \ {None}

\* parse_positive_amount
Positive(amounts) == {amt \in amounts : amt > 0}

\* parse_non_negative_amount
NonNegative(amounts) == {amt \in amounts : amt >= 0}

\* start_transaction_flow refuses every transaction while logged out.
ConsoleNext ==
  \/ \E f \in AccountFiles, m \in ConsoleModes, u \in UserNames \ {EmptyStr} :
       console_login(f, m, u)
  \/ console_logout
  \/ console_write_transaction_file
  \/ is_logged_in /\ LogOpen
       /\ \E n \in Numbers, amt \in Positive(WithdrawalAmounts), h \in ConsoleNames :
            process_withdrawal(n, amt, FlowName(h))
  \/ is_logged_in /\ LogOpen
       /\ \E n \in Numbers, t \in Targets, amt \in Positive(TransferAmounts),
             h \in ConsoleNames :
            process_transfer(n, t, amt, FlowName(h))
  \/ is_logged_in /\ LogOpen
       /\ \E n \in Numbers, amt \in Positive(PaybillAmounts), c \in Companies,
             h \in ConsoleNames :
            process_paybill(n, amt, c, FlowName(h))
  \/ is_logged_in /\ LogOpen
       /\ \E n \in Numbers, amt \in Positive(DepositAmounts), h \in ConsoleNames :
            process_deposit(n, amt, FlowName(h))
  \/ is_logged_in /\ LogOpen
       /\ \E h \in CreateNames, b \in NonNegative(CreateBalances) : process_create(h, b)
  \/ is_logged_in /\ LogOpen
       /\ \E h \in ConsoleNames, n \in Numbers : process_delete(h, n)
  \/ is_logged_in /\ LogOpen
       /\ \E h \in ConsoleNames, n \in Numbers : process_disable(h, n)
  \/ is_logged_in /\ LogOpen
       /\ \E h \in ConsoleNames, n \in Numbers : process_changeplan(h, n)

SpecConsole == Init /\ [][ConsoleNext]_vars

----------------------------------------------------------------------------
\* Properties

Last(q) == q[Len(q)]

MustBeLoggedIn == Fail("Must be logged in to perform transactions.")

WithdrawalOk == "Withdrawal of ${amount:.2f} successful. New balance: ${balance:.2f}"
TransferOk == "Transfer of ${amount:.2f} successful."
DeletedOk == "Account {account_number} for {holder_name} deleted."
PaybillOk == "Bill payment of ${amount:.2f} to {company} successful."
DepositOk == "Deposit of ${amount:.2f} accepted (available next session)."
CreatedOk == "Account {new_number} created for {holder_name} (available next session)."
ChangeplanOk == "Payment plan changed for account {account_number}."

CapMessages == {"Maximum withdrawal per session is $500.00.",
                "Maximum transfer per session is $1000.00.",
                "Maximum paybill per session is $2000.00."}

PrivilegeDenied ==
  {"Create account is a privileged transaction. Admin access required.",
   "Delete account is a privileged transaction. Admin access required.",
   "Disable account is a privileged transaction. Admin access required.",
   "Change plan is a privileged transaction. Admin access required."}

StandardSession == is_logged_in /\ ~is_admin
AdminSession == is_logged_in /\ is_admin

\* C1: in every reachable state of a standard session the running withdrawal
\* total is at most 500.00, the running transfer total at most 1000.00 and the
\* running paybill total at most 2000.00.
C1_StandardTotalsWithinCaps ==
  StandardSession =>
    /\ session_withdrawals <= 50000
    /\ session_transfers <= 100000
    /\ session_paybills <= 200000

\* A standard session in which a withdrawal of 300.00 was accepted and the
\* next one was refused because of the running total.
C1_Witness ==
  /\ StandardSession
  /\ session_withdrawals = 30000
  /\ Len(transactions) = 1
  /\ result = Fail("Maximum withdrawal per session is $500.00.")

\* The messages validate_withdrawal can return; a step of process_withdrawal
\* in a session carries one of them or the success message.
WithdrawalErrors ==
  {"Account not found.", "Account is disabled.", "Amount must be positive.",
   "Maximum withdrawal per session is $500.00.", "Insufficient funds."}

\* The messages validate_transfer can return.
TransferErrors ==
  {"Source account not found.", "Destination account not found.",
   "Source or destination account is disabled.", "Amount must be positive.",
   "Maximum transfer per session is $1000.00.",
   "Insufficient funds in source account."}

\* The messages validate_paybill can return.
PaybillErrors ==
  {"Account not found.", "Account is disabled.",
   "Invalid company code. Valid codes: EC, CQ, FI.", "Amount must be positive.",
   "Maximum paybill per session is $2000.00.", "Insufficient funds."}

\* Every validator of a money transaction returns None or one of its messages.
ValidatorMessages ==
  \A i \in 1..Len(accounts) :
    /\ \A amt \in WithdrawalAmounts :
         validate_withdrawal(accounts[i], amt, is_admin, session_withdrawals)
           \in WithdrawalErrors \cup {NoError}
    /\ \A amt \in PaybillAmounts, c \in Companies :
         validate_paybill(accounts[i], amt, c, is_admin, session_paybills)
           \in PaybillErrors \cup {NoError}
    /\ \A j \in 1..Len(accounts), amt \in TransferAmounts :
         validate_transfer(accounts[i], accounts[j], amt, is_admin, session_transfers)
           \in TransferErrors \cup {NoError}

\* C2: a withdrawal, transfer or paybill that returns success was called on a
\* resolved (source) account whose balance was at least the requested amount,
\* in standard and in admin sessions.
C2_NoSuccessWithoutFunds ==
  [][result'.ok =>
       /\ result'.msg = WithdrawalOk =>
            \A n \in Numbers, h \in HolderNames :
              process_withdrawal(n, result'.args[1], h) =>
                LET a == find_user_account(Owner(h), n)
                IN a # 0 /\ accounts[a].balance >= result'.args[1]
       /\ result'.msg = TransferOk =>
            \A n \in Numbers, t \in Targets, h \in HolderNames :
              process_transfer(n, t, result'.args[1], h) =>
                LET a == find_user_account(Owner(h), n)
                IN a # 0 /\ accounts[a].balance >= result'.args[1]
       /\ result'.msg = PaybillOk =>
            \A n \in Numbers, c \in Companies, h \in HolderNames :
              process_paybill(n, result'.args[1], c, h) =>
                LET a == find_user_account(Owner(h), n)
                IN a # 0 /\ accounts[a].balance >= result'.args[1]]_vars

\* An admin paybill refused for lack of funds after an accepted paybill.
C2_Witness ==
  /\ AdminSession
  /\ result = Fail("Insufficient funds.")
  /\ Len(transactions) = 1
  /\ Last(transactions).code = CODES.PAYBILL
  /\ accounts # <<>>
  /\ accounts[1].balance = 80000

\* C3: after a successful process_withdrawal of amount a, the resolved account's
\* balance is its balance before the call minus a, and every other account of
\* the list is as it was.
C3_WithdrawalDebitsExactly ==
  [][(result'.ok /\ result'.msg = WithdrawalOk) =>
       \A n \in Numbers, amt \in WithdrawalAmounts, h \in HolderNames :
         process_withdrawal(n, amt, h) =>
           LET a == find_user_account(Owner(h), n)
           IN /\ Len(accounts') = Len(accounts)
              /\ accounts'[a].balance = accounts[a].balance - amt
              /\ \A i \in 1..Len(accounts) : i # a => accounts'[i] = accounts[i]]_vars

\* A withdrawal of 300.00 was accepted on the first account (230000 cents
\* when loaded), next to five other accounts.
C3_Witness ==
  /\ result.ok
  /\ result.msg = WithdrawalOk
  /\ result.args = <<30000, 200000>>
  /\ Len(accounts) = 6
  /\ accounts[1].balance = 200000

\* C4 (as in the claim): after every successful process_transfer of amount a,
\* also when the same number is given for both accounts, the source's balance
\* is its balance before minus a and the destination's is its balance before
\* plus a.
C4_Original ==
  [][(result'.ok /\ result'.msg = TransferOk) =>
       \A n \in Numbers, t \in Targets, amt \in TransferAmounts, h \in HolderNames :
         process_transfer(n, t, amt, h) =>
           LET si == find_user_account(Owner(h), n)
               ti == find_account_by_number(t)
           IN /\ accounts'[si].balance = accounts[si].balance - amt
              /\ accounts'[ti].balance = accounts[ti].balance + amt]_vars

\* C4 (amended): after every successful process_transfer of amount a whose
\* source and destination resolve to two different accounts, the source's
\* balance is its balance before minus a and the destination's is its balance
\* before plus a; when both resolve to the same account, that account is debited
\* and credited by a and ends with the balance it had. No other account changes.
C4_TransferMovesAmount ==
  [][(result'.ok /\ result'.msg = TransferOk) =>
       \A n \in Numbers, t \in Targets, amt \in TransferAmounts, h \in HolderNames :
         process_transfer(n, t, amt, h) =>
           LET si == find_user_account(Owner(h), n)
               ti == find_account_by_number(t)
           IN /\ si # 0 /\ ti # 0
              /\ Len(accounts') = Len(accounts)
              /\ si # ti => /\ accounts'[si].balance = accounts[si].balance - amt
                            /\ accounts'[ti].balance = accounts[ti].balance + amt
              /\ si = ti => accounts'[si].balance = accounts[si].balance
              /\ \A i \in 1..Len(accounts) :
                   i \notin {si, ti} => accounts'[i] = accounts[i]]_vars

\* Two transfers were accepted from account 00001: one to account 00002 and
\* one to account 00001 itself.
C4_Witness ==
  /\ Len(transactions) = 2
  /\ \A k \in 1..2 : /\ transactions[k].code = CODES.TRANSFER
                     /\ transactions[k].account_number = N1
  /\ {transactions[1].misc, transactions[2].misc} = {<<"0", "1">>, <<"0", "2">>}
  /\ result.ok
  /\ result.msg = TransferOk

\* A step that appends exactly one record to the log and leaves the account
\* list, the session totals and the login state as they were.
OnlyAppends ==
  /\ UNCHANGED <<accounts, totals, login>>
  /\ Len(transactions') = Len(transactions) + 1
  /\ SubSeq(transactions', 1, Len(transactions)) = transactions

\* C5: a successful process_deposit, process_create or process_changeplan
\* leaves the account list and the three session totals unchanged; its only
\* effect is one record appended to the log.
C5_RecordOnly ==
  [][(result'.ok /\ result'.msg \in {DepositOk, CreatedOk, ChangeplanOk}) =>
       /\ \A n \in Numbers, amt \in DepositAmounts, h \in HolderNames :
            process_deposit(n, amt, h) =>
              OnlyAppends /\ Last(transactions').code = CODES.DEPOSIT
       /\ \A h \in CreateNames, b \in CreateBalances :
            process_create(h, b) =>
              OnlyAppends /\ Last(transactions').code = CODES.CREATE
       /\ \A h \in HolderNames, n \in Numbers :
            process_changeplan(h, n) =>
              OnlyAppends /\ Last(transactions').code = CODES.CHANGEPLAN]_vars

\* A deposit of 200.00 was accepted on the first account, whose balance is
\* still the loaded one.
C5_Witness ==
  /\ result.ok
  /\ result.msg = DepositOk
  /\ Last(transactions).code = CODES.DEPOSIT
  /\ Last(transactions).amount = 20000
  /\ Len(accounts) = 6
  /\ accounts[1].balance = 230000

\* C6: a successful process_delete(holder_name, account_number) removes every
\* record whose holder name and number both match (at least one) and keeps
\* every other record, unchanged and in the same order.
C6_DeleteExact ==
  [][(result'.ok /\ result'.msg = DeletedOk) =>
       \A h \in HolderNames, n \in Numbers :
         process_delete(h, n) =>
           LET Match(i) == /\ accounts[i].holder_name = h
                           /\ accounts[i].account_number = n
               kept == {i \in 1..Len(accounts) : ~Match(i)}
               Kth(k) == CHOOSE i \in kept :
                           Cardinality({j \in kept : j <= i}) = k
           IN /\ \E i \in 1..Len(accounts) : Match(i)
              /\ Len(accounts') = Cardinality(kept)
              /\ \A k \in 1..Len(accounts') : accounts'[k] = accounts[Kth(k)]]_vars

\* Alice's account 00001, which the list held twice, was deleted: both records
\* are gone, Bob's accounts and Alice's account 00002 are still there.
C6_Witness ==
  /\ result.ok
  /\ result.msg = DeletedOk
  /\ result.args = <<N1, Alice>>
  /\ Len(accounts) = 4
  /\ accounts[1] = Account(N2, Bob, "A", 30000)
  /\ accounts[2] = Account(N2, Alice, "D", 20000)

\* C7: while the controller is logged out, every step that is a call of one of
\* the eight transaction operations, whatever its arguments, returns failure
\* with 'Must be logged in to perform transactions.' and changes neither the
\* account list, the log nor the session totals.
C7_LoggedOutRejectsAll ==
  [][~is_logged_in =>
       LET Rejected == /\ result' = MustBeLoggedIn
                       /\ UNCHANGED <<accounts, transactions, totals, login>>
       IN \/ Rejected
          \/ /\ \A n \in Numbers, amt \in WithdrawalAmounts, h \in HolderNames :
                  ~process_withdrawal(n, amt, h)
             /\ \A n \in Numbers, t \in Targets, amt \in TransferAmounts, h \in HolderNames :
                  ~process_transfer(n, t, amt, h)
             /\ \A n \in Numbers, amt \in PaybillAmounts, c \in Companies, h \in HolderNames :
                  ~process_paybill(n, amt, c, h)
             /\ \A n \in Numbers, amt \in DepositAmounts, h \in HolderNames :
                  ~process_deposit(n, amt, h)
             /\ \A h \in CreateNames, b \in CreateBalances : ~process_create(h, b)
             /\ \A h \in HolderNames, n \in Numbers : ~process_delete(h, n)
             /\ \A h \in HolderNames, n \in Numbers : ~process_disable(h, n)
             /\ \A h \in HolderNames, n \in Numbers : ~process_changeplan(h, n)]_vars

\* A transaction was refused while logged out, after a session that left a
\* record in the log, with accounts loaded.
C7_Witness ==
  /\ ~is_logged_in
  /\ result = MustBeLoggedIn
  /\ Len(accounts) = 6
  /\ Len(transactions) = 1

\* C8: in a standard session process_create, process_delete, process_disable
\* and process_changeplan return failure with their 'Admin access required.'
\* message and leave the account list and the log unchanged; no step of a
\* standard session appends a create, delete, disable or changeplan record.
C8_StandardDeniedPrivileged ==
  [][StandardSession =>
       LET Denied(msg) == /\ result' = Fail(msg)
                          /\ msg \in PrivilegeDenied
                          /\ UNCHANGED <<accounts, transactions>>
       IN /\ \A h \in CreateNames, b \in CreateBalances :
               process_create(h, b) =>
                 Denied("Create account is a privileged transaction. Admin access required.")
          /\ \A h \in HolderNames, n \in Numbers :
               process_delete(h, n) =>
                 Denied("Delete account is a privileged transaction. Admin access required.")
          /\ \A h \in HolderNames, n \in Numbers :
               process_disable(h, n) =>
                 Denied("Disable account is a privileged transaction. Admin access required.")
          /\ \A h \in HolderNames, n \in Numbers :
               process_changeplan(h, n) =>
                 Denied("Change plan is a privileged transaction. Admin access required.")
          /\ transactions' # transactions =>
               Last(transactions').code \notin
                 {CODES.CREATE, CODES.DELETE, CODES.DISABLE, CODES.CHANGEPLAN}]_vars

\* Alice, in a standard session with her accounts loaded, was refused a
\* disable.
C8_Witness ==
  /\ StandardSession
  /\ current_user = Alice
  /\ Len(accounts) = 6
  /\ result = Fail("Disable account is a privileged transaction. Admin access required.")

\* C9: no call made in an admin session returns a session-cap message, and a
\* withdrawal, transfer or paybill made in it on existing, not disabled
\* account(s), with a valid company code, a positive amount and a balance that
\* covers it is never a failing step: it succeeds whatever the running total.
C9_AdminNeverCapped ==
  /\ []ValidatorMessages
  /\ [][AdminSession =>
          /\ result'.msg \notin CapMessages
          /\ ~result'.ok =>
               \A h \in HolderNames, n \in Numbers :
                 LET a == AccountAt(find_user_account(h, n))
                 IN (a # NoAccount /\ ~is_disabled(a)) =>
                      /\ result'.msg \in WithdrawalErrors =>
                           \A amt \in WithdrawalAmounts :
                             (amt > 0 /\ a.balance >= amt)
                               => ~process_withdrawal(n, amt, h)
                      /\ result'.msg \in PaybillErrors =>
                           \A amt \in PaybillAmounts, c \in Companies :
                             (amt > 0 /\ a.balance >= amt /\ c \in {EC, CQ, FI})
                               => ~process_paybill(n, amt, c, h)
                      /\ result'.msg \in TransferErrors =>
                           \A t \in Targets :
                             LET b == AccountAt(find_account_by_number(t))
                             IN (b # NoAccount /\ ~is_disabled(b)) =>
                                  \A amt \in TransferAmounts :
                                    (amt > 0 /\ a.balance >= amt)
                                      => ~process_transfer(n, t, amt, h)]_vars

\* An admin session in which the transfers accepted add up to 1200.00.
C9_Witness ==
  /\ AdminSession
  /\ session_transfers = 120000
  /\ result.ok
  /\ result.msg = TransferOk

\* C10: the login state only moves from logged out to an admin session or to
\* a standard session of a named user, and from a session to logged out by a
\* successful logout; process_login while logged in fails with 'Already logged
\* in' and process_logout while logged out fails with 'Not logged in.', both
\* without changing the mode or the user.
C10_LoginStateMachine ==
  [][/\ is_logged_in =>
          \/ UNCHANGED login
          \/ /\ ~is_logged_in' /\ ~is_admin' /\ current_user' = None
             /\ result' = Ok("Session ended. Transaction file ready for download.", <<>>)
     /\ ~is_logged_in =>
          \/ UNCHANGED login
          \/ /\ is_logged_in' /\ is_admin'
             /\ current_user' = <<"A", "d", "m", "i", "n">>
             /\ result' = Ok("Admin session started.", <<>>)
          \/ /\ is_logged_in' /\ ~is_admin'
             /\ current_user' \in UserNames \ {EmptyStr}
             /\ result'.ok
     /\ is_logged_in =>
          \A m \in Modes, u \in UserNames :
            process_login(m, u) =>
              /\ result' = Fail("Already logged in. Please logout first.")
              /\ UNCHANGED login
     /\ (~is_logged_in /\ process_logout) =>
          /\ result' = Fail("Not logged in.")
          /\ UNCHANGED login]_vars

\* A login was refused inside Alice's standard session, which is still hers.
C10_Witness ==
  /\ StandardSession
  /\ current_user = Alice
  /\ result = Fail("Already logged in. Please logout first.")

AdminLoginOk == "Admin session started."
StandardLoginOk == "Standard user {user_name} logged in."
LogoutOk == "Session ended. Transaction file ready for download."

\* The last call was a login that succeeded.
JustLoggedIn == result.ok /\ result.msg \in {AdminLoginOk, StandardLoginOk}

\* The last call was a logout that succeeded.
JustLoggedOut == result.ok /\ result.msg = LogoutOk

\* C11: right after every successful login and right after every successful
\* logout the running withdrawal, transfer and paybill totals are all zero,
\* whatever earlier sessions moved.
C11_TotalsZeroAtSessionEdges ==
  (JustLoggedIn \/ JustLoggedOut) =>
    /\ session_withdrawals = 0
    /\ session_transfers = 0
    /\ session_paybills = 0

\* A login that follows a session in which a withdrawal was accepted.
C11_Witness ==
  /\ JustLoggedIn
  /\ \E k \in 1..Len(transactions) : transactions[k].code = CODES.WITHDRAWAL
  /\ totals = <<0, 0, 0>>

\* C12: the log is session-scoped, right after every successful login the
\* transaction log is empty, so the transaction file of a session holds only
\* the records of that session.
C12_LogEmptyAfterLogin == JustLoggedIn => transactions = <<>>

\* content.split('\n')
RECURSIVE SplitLines(_)
SplitLines(content) ==
  IF \A k \in 1..Len(content) : content[k] # "\n" THEN <<content>>
  ELSE LET k == CHOOSE k \in 1..Len(content) :
                  /\ content[k] = "\n"
                  /\ \A j \in 1..(k - 1) : content[j] # "\n"
       IN <<SubSeq(content, 1, k - 1)>> \o SplitLines(SubSeq(content, k + 1, Len(content)))

\* The last call was generate_transaction_file.
JustGenerated == result.msg = "<str>"

\* The line of the End-Session record: code 00, a blank name, account 00000,
\* amount 0.
EndSessionLine ==
  <<"0", "0", " ">> \o [i \in 1..20 |-> " "] \o <<" ", "0", "0", "0", "0", "0", " ">>
    \o <<"0", "0", "0", "0", "0", ".", "0", "0", " ", " ">>

\* C13: generate_transaction_file over a log of N records returns exactly N+1
\* newline-terminated lines, the N records of the log in order and then one
\* End-Session line (code 00, account 00000, amount 0); no earlier line has
\* code 00; and the call leaves the log as it was, so the End-Session record
\* is never added to it and a second call returns the same text.
C13_FileIsLogPlusEndSession ==
  /\ [](JustGenerated =>
          LET lines == SplitLines(result.args[1])
              N == Len(transactions)
          IN /\ Len(lines) = N + 2
             /\ lines[N + 2] = <<>>
             /\ lines[N + 1] = EndSessionLine
             /\ \A k \in 1..N :
                  /\ lines[k] = to_file_string(transactions[k])
                  /\ SubSeq(lines[k], 1, 2) # <<"0", "0">>
                  /\ transactions[k].code # CODES.END_SESSION)
  /\ [][JustGenerated' =>
          /\ transactions' = transactions
          /\ JustGenerated => result' = result]_vars

\* The file of a log of two records was generated.
C13_Witness ==
  /\ JustGenerated
  /\ Len(transactions) = 2
  /\ Len(SplitLines(result.args[1])) = 4

\* The account a lookup by this holder and number resolves to is disabled.
DisabledFor(holder_name, account_number) ==
  LET a == find_user_account(holder_name, account_number)
  IN a # 0 /\ is_disabled(accounts[a])

AccountDisabled == Fail("Account is disabled.")

WithdrawalCapReached == Fail("Maximum withdrawal per session is $500.00.")

\* C15: in a standard session a withdrawal of a positive amount from an
\* existing, active account whose balance covers it is accepted exactly when
\* the running withdrawal total plus the amount is at most 500.00, and is
\* otherwise rejected with the cap message; so a withdrawal that brings the
\* total to exactly 500.00 is accepted and every positive one after it is
\* rejected with the cap message although the balance covers it.
C15_WithdrawalCapInclusive ==
  /\ []ValidatorMessages
  /\ [][(StandardSession /\ result'.msg \in WithdrawalErrors \cup {WithdrawalOk}) =>
          \A n \in Numbers, h \in HolderNames :
            LET a == find_user_account(Owner(h), n)
            IN (a # 0 /\ ~is_disabled(AccountAt(a))) =>
                 \A amt \in WithdrawalAmounts :
                   (/\ amt > 0
                    /\ AccountAt(a).balance >= amt
                    /\ process_withdrawal(n, amt, h))
                     => /\ result'.ok <=> (session_withdrawals + amt <= 50000)
                        /\ ~result'.ok => result' = WithdrawalCapReached
                        /\ session_withdrawals = 50000 => result' = WithdrawalCapReached]_vars

\* One withdrawal of exactly 500.00 was accepted, and the next withdrawal was
\* refused with the cap message while the account still held 1800.00.
C15_Witness ==
  /\ StandardSession
  /\ session_withdrawals = 50000
  /\ transactions # <<>>
  /\ Last(transactions) = create_withdrawal(Alice, N1, 50000)
  /\ accounts[1].balance = 180000
  /\ result = WithdrawalCapReached

\* The integer values of the account numbers int() accepts.
NumericNumbers ==
  {ParseInt(accounts[i].account_number) : i \in 1..Len(accounts)} \ {-1}

\* C16: an accepted process_create records the account number (largest
\* integer value among the numeric account numbers of the list) + 1, zero-padded
\* to five digits, 00001 when no account number is numeric, and after the call
\* no account of the list has that number.
C16_CreateRecordsMaxPlusOne ==
  [][(result'.ok /\ result'.msg = CreatedOk) =>
       LET record == Last(transactions')
           expected == IF NumericNumbers = {} THEN 1
                       ELSE (CHOOSE m \in NumericNumbers :
                               \A v \in NumericNumbers : v <= m) + 1
       IN /\ transactions' = Append(transactions, record)
          /\ record.code = CODES.CREATE
          /\ Len(record.account_number) = 5
          /\ ParseInt(record.account_number) = expected
          /\ result'.args[1] = record.account_number
          /\ \A i \in 1..Len(accounts') :
               accounts'[i].account_number # record.account_number]_vars

\* With the numbers 00001, 00002, X02 and 00007 loaded, a create was
\* accepted and recorded number 00008.
C16_Witness ==
  /\ result.ok
  /\ result.msg = CreatedOk
  /\ accounts \in AccountFiles
  /\ Last(transactions).code = CODES.CREATE
  /\ Last(transactions).account_number = <<"0", "0", "0", "0", "8">>

FirstError(rules) ==
  IF \A k \in 1..Len(rules) : ~rules[k][1] THEN NoError
  ELSE rules[CHOOSE k \in 1..Len(rules) :
               rules[k][1] /\ \A j \in 1..(k - 1) : ~rules[j][1]][2]

\* C18: in every state of a session and for every request, the error the
\* validator of a withdrawal, transfer, paybill or deposit returns is that of
\* the first violated rule in the fixed order: account not found (source,
\* then destination), account disabled, the domain checks (for paybill the
\* company code before the amount), the standard-session cap, insufficient
\* funds; it returns no error exactly when no rule is violated.
C18_ErrorPrecedence ==
  is_logged_in =>
    /\ \A n \in Numbers, amt \in WithdrawalAmounts, h \in HolderNames :
         LET a == AccountAt(find_user_account(Owner(h), n))
         IN validate_withdrawal(a, amt, is_admin, session_withdrawals) =
              FirstError(<<
                <<a = NoAccount, "Account not found.">>,
                <<is_disabled(a), "Account is disabled.">>,
                <<amt <= 0, "Amount must be positive.">>,
                <<~is_admin /\ session_withdrawals + amt > 50000,
                  "Maximum withdrawal per session is $500.00.">>,
                <<a.balance < amt, "Insufficient funds.">> >>)
    /\ \A n \in Numbers, t \in Targets, amt \in TransferAmounts, h \in HolderNames :
         LET source == AccountAt(find_user_account(Owner(h), n))
             target == AccountAt(find_account_by_number(t))
         IN validate_transfer(source, target, amt, is_admin, session_transfers) =
              FirstError(<<
                <<source = NoAccount, "Source account not found.">>,
                <<target = NoAccount, "Destination account not found.">>,
                <<is_disabled(source) \/ is_disabled(target),
                  "Source or destination account is disabled.">>,
                <<amt <= 0, "Amount must be positive.">>,
                <<~is_admin /\ session_transfers + amt > 100000,
                  "Maximum transfer per session is $1000.00.">>,
                <<source.balance < amt, "Insufficient funds in source account.">> >>)
    /\ \A n \in Numbers, amt \in PaybillAmounts, c \in Companies, h \in HolderNames :
         LET a == AccountAt(find_user_account(Owner(h), n))
         IN validate_paybill(a, amt, c, is_admin, session_paybills) =
              FirstError(<<
                <<a = NoAccount, "Account not found.">>,
                <<is_disabled(a), "Account is disabled.">>,
                <<c \notin {EC, CQ, FI}, "Invalid company code. Valid codes: EC, CQ, FI.">>,
                <<amt <= 0, "Amount must be positive.">>,
                <<~is_admin /\ session_paybills + amt > 200000,
                  "Maximum paybill per session is $2000.00.">>,
                <<a.balance < amt, "Insufficient funds.">> >>)
    /\ \A n \in Numbers, amt \in DepositAmounts, h \in HolderNames :
         LET a == AccountAt(find_user_account(Owner(h), n))
         IN validate_deposit(a, amt) =
              FirstError(<<
                <<a = NoAccount, "Account not found.">>,
                <<is_disabled(a), "Account is disabled.">>,
                <<amt <= 0, "Amount must be positive.">> >>)

\* Bob withdrew his whole balance of 300.00 in a standard session; his next
\* withdrawal exceeds both the cap and the balance and got the cap message.
C18_Witness ==
  /\ StandardSession
  /\ current_user = Bob
  /\ session_withdrawals = 30000
  /\ Len(accounts) = 6
  /\ accounts[2] = Account(N2, Bob, "A", 0)
  /\ result = WithdrawalCapReached

\* C19: in a standard session of user U every call acts as U, whatever holder
\* name is passed: an accepted withdrawal, paybill, deposit or transfer is
\* recorded under U on an account number U holds, only accounts held by U are
\* debited, and an account held by another name changes only by a balance
\* increase as the destination of an accepted transfer.
C19_StandardActsAsCurrentUser ==
  [][(StandardSession /\ result' # NoResult) =>
       /\ Len(accounts') = Len(accounts)
       /\ \A i \in 1..Len(accounts) :
            accounts[i].holder_name # current_user =>
              /\ accounts'[i].balance >= accounts[i].balance
              /\ accounts'[i] = [accounts[i] EXCEPT !.balance = accounts'[i].balance]
              /\ accounts'[i].balance > accounts[i].balance =>
                   /\ result'.ok
                   /\ result'.msg = TransferOk
                   /\ \E t \in Targets : find_account_by_number(t) = i
       /\ (result'.ok /\ result'.msg \in {WithdrawalOk, PaybillOk, DepositOk, TransferOk}) =>
            LET record == Last(transactions')
            IN /\ record.account_holder_name = current_user
               /\ find_user_account(current_user, record.account_number) # 0
               /\ \A i \in 1..Len(accounts) :
                    accounts'[i].balance < accounts[i].balance =>
                      i = find_user_account(current_user, record.account_number)]_vars

\* Alice, in a standard session, transferred 600.00 from her account 00001 to
\* number 00002, which resolves to Bob's account: his balance went up.
C19_Witness ==
  /\ StandardSession
  /\ current_user = Alice
  /\ result.ok
  /\ result.msg = TransferOk
  /\ Len(accounts) = 6
  /\ accounts[1] = Account(N1, Alice, "A", 170000)
  /\ accounts[2] = Account(N2, Bob, "A", 90000)

DisabledOk == "Account {account_number} for {holder_name} disabled."

\* The transaction code that belongs to each success message of a transaction.
CodeOfSuccess ==
  [m \in {WithdrawalOk, TransferOk, PaybillOk, DepositOk, CreatedOk, DeletedOk,
          DisabledOk, ChangeplanOk} |->
     CASE m = WithdrawalOk -> CODES.WITHDRAWAL
       [] m = TransferOk -> CODES.TRANSFER
       [] m = PaybillOk -> CODES.PAYBILL
       [] m = DepositOk -> CODES.DEPOSIT
       [] m = CreatedOk -> CODES.CREATE
       [] m = DeletedOk -> CODES.DELETE
       [] m = DisabledOk -> CODES.DISABLE
       [] m = ChangeplanOk -> CODES.CHANGEPLAN]

\* C20: the log is append-only and mirrors acceptance: a transaction that
\* returns success appends exactly one record, with its own code, at the end
\* of the log; every call that returns failure, and every other call, leaves
\* the log as it was; no step removes, reorders or alters a record of the log.
C20_LogMirrorsAcceptance ==
  [][IF result'.ok /\ result'.msg \in DOMAIN CodeOfSuccess
     THEN /\ Len(transactions') = Len(transactions) + 1
          /\ SubSeq(transactions', 1, Len(transactions)) = transactions
          /\ Last(transactions').code = CodeOfSuccess[result'.msg]
     ELSE transactions' = transactions]_vars

\* A paybill was accepted after a withdrawal: the log holds the withdrawal
\* record and then the paybill record.
C20_Witness ==
  /\ result.ok
  /\ result.msg = PaybillOk
  /\ Len(transactions) = 2
  /\ transactions[1].code = CODES.WITHDRAWAL
  /\ transactions[2].code = CODES.PAYBILL

\* C21: the number recorded by an accepted process_create differs from the
\* number of every account of the list and from the number recorded by the
\* Create accepted by the call right before it, in the same session.
C21_CreateNumbersUnique ==
  [][(/\ result'.ok /\ result'.msg = CreatedOk
      /\ Len(transactions') = Len(transactions) + 1) =>
       LET number == Last(transactions').account_number
       IN /\ \A i \in 1..Len(accounts) : accounts[i].account_number # number
          /\ (result.ok /\ result.msg = CreatedOk)
               => Last(transactions).account_number # number]_vars

AlreadyDisabled == Fail("Account is already disabled.")

\* The positions of the log that hold a disable record of this account.
DisableRecords(log, holder_name, account_number) ==
  {k \in 1..Len(log) : log[k] = create_disable(holder_name, account_number)}

C23_TotalsIndependent ==
  [][result'.ok =>
       /\ result'.msg = WithdrawalOk =>
            /\ session_withdrawals' = session_withdrawals + Last(transactions').amount
            /\ result'.args[1] = Last(transactions').amount
            /\ UNCHANGED <<session_transfers, session_paybills>>
       /\ result'.msg = TransferOk =>
            /\ session_transfers' = session_transfers + Last(transactions').amount
            /\ result'.args[1] = Last(transactions').amount
            /\ UNCHANGED <<session_withdrawals, session_paybills>>
       /\ result'.msg = PaybillOk =>
            /\ session_paybills' = session_paybills + Last(transactions').amount
            /\ result'.args[1] = Last(transactions').amount
            /\ UNCHANGED <<session_withdrawals, session_transfers>>
       /\ result'.msg \in {DepositOk, CreatedOk, DeletedOk, DisabledOk, ChangeplanOk} =>
            UNCHANGED totals]_vars

\* In one admin session a withdrawal of 300.00 and a paybill of 1500.00 were
\* accepted: each total holds its own amount, the transfer total is zero.
C23_Witness ==
  /\ AdminSession
  /\ result.ok
  /\ result.msg = PaybillOk
  /\ session_withdrawals = 30000
  /\ session_paybills = 150000
  /\ session_transfers = 0

\* The destination number with zeros on its left up to five characters.
PaddedToFive(number) ==
  IF Len(number) >= 5 THEN number
  ELSE [i \in 1..5 |-> IF i <= 5 - Len(number) THEN "0"
                       ELSE number[i - (5 - Len(number))]]

\* C24: the record of an accepted transfer carries the source account number
\* as its account number and, as misc, the last two characters of the
\* destination number padded with zeros to five characters; two destinations
\* that share their last two characters leave the same misc.
C24_TransferMiscIsLastTwo ==
  [][(result'.ok /\ result'.msg = TransferOk) =>
       \A s \in Numbers, t \in Targets, h \in HolderNames :
         \/ /\ Last(transactions').code = CODES.TRANSFER
            /\ Last(transactions').account_number = s
            /\ Last(transactions').misc =
                 <<PaddedToFive(t)[Len(PaddedToFive(t)) - 1],
                   PaddedToFive(t)[Len(PaddedToFive(t))]>>
            /\ \A u \in Targets :
                 LastTwo(u) = LastTwo(t) =>
                   create_transfer(h, s, u, result'.args[1]).misc
                     = Last(transactions').misc
         \/ ~process_transfer(s, t, result'.args[1], h)]_vars

\* A transfer from 00001 to the account numbered X02 was accepted: the record
\* names 00001 and its misc is 02, the misc a transfer to 00002 leaves too.
C24_Witness ==
  /\ result.ok
  /\ result.msg = TransferOk
  /\ accounts[5].account_number = NX
  /\ accounts[5].balance = 70000
  /\ Last(transactions).account_number = N1
  /\ Last(transactions).misc = <<"0", "2">>
  /\ create_transfer(Alice, N1, N2, 60000).misc = <<"0", "2">>

\* The last operation returned failure (load_accounts and
\* generate_transaction_file return no success flag).
Failed(r) == ~r.ok /\ r.msg \notin {NoResult.msg, "<str>"}

\* C25: an operation that returns failure, whether login, logout or one of the
\* eight transactions and whatever the reason, leaves the account list, the
\* log, the login fields and the three session totals unchanged.
C25_FailureChangesNothing ==
  [][Failed(result') => UNCHANGED <<accounts, transactions, login, totals>>]_vars

\* A withdrawal was rejected on the session cap in a standard session that
\* already holds an accepted withdrawal of 500.00.
C25_Witness ==
  /\ StandardSession
  /\ result = Fail("Maximum withdrawal per session is $500.00.")
  /\ session_withdrawals = 50000
  /\ Len(transactions) = 1

\* C26: the loaded accounts all have a non-negative balance, and after any
\* sequence of operations every account in the list still has one.
C26_BalancesNonNegative ==
  \A i \in 1..Len(accounts) : accounts[i].balance >= 0

\* Bob's active account 00002 was emptied by an accepted withdrawal of its
\* whole balance of 300.00.
C26_Witness ==
  /\ result.ok
  /\ result.msg = WithdrawalOk
  /\ Len(accounts) = 6
  /\ accounts[2].account_number = N2
  /\ accounts[2].balance = 0

\* The sum of the balances of a list of accounts.
RECURSIVE SumOfBalances(_)
SumOfBalances(list) ==
  IF list = <<>> THEN 0
  ELSE list[1].balance + SumOfBalances(SubSeq(list, 2, Len(list)))

\* The accounts of the list that a delete record names.
RemovedBy(record, list) ==
  LET Named(acct) == /\ acct.holder_name = record.account_holder_name
                     /\ acct.account_number = record.account_number
  IN SelectSeq(list, Named)

\* C27: no operation (login, logout or one of the eight transactions) raises
\* the sum of the balances of the account list: an accepted transfer leaves it
\* unchanged, an accepted withdrawal or paybill lowers it by exactly the
\* amount, an accepted delete lowers it by the balance it removes, and every
\* other operation, accepted or rejected, leaves it unchanged.
C27_SumNeverGrows ==
  [][result'.msg # NoResult.msg =>
       IF accounts' = accounts
       THEN ~(result'.ok /\ result'.msg \in {WithdrawalOk, PaybillOk, DeletedOk})
       ELSE LET before == SumOfBalances(accounts)
                after == SumOfBalances(accounts')
            IN /\ result'.ok
               /\ after <= before
               /\ IF result'.msg \in {WithdrawalOk, PaybillOk}
                  THEN after = before - Last(transactions').amount
                  ELSE IF result'.msg = DeletedOk
                  THEN /\ after = before - SumOfBalances(RemovedBy(Last(transactions'), accounts))
                       /\ RemovedBy(Last(transactions'), accounts) # <<>>
                       /\ RemovedBy(Last(transactions'), accounts') = <<>>
                  ELSE after = before]_vars

\* The only accepted transaction so far is the delete of Alice's 00001: both
\* of her records with that number are gone and the sum fell from 3200.00 by
\* their 2500.00.
C27_Witness ==
  /\ result.ok
  /\ result.msg = DeletedOk
  /\ Len(transactions) = 1
  /\ Len(accounts) = 4
  /\ SumOfBalances(accounts) = 70000

\* The account that the record of an accepted transaction acted on.
ActedOn(record) ==
  AccountAt(find_user_account(record.account_holder_name, record.account_number))

\* C28: Disabled is absorbing and freezes the account. On every step of an
\* operation (login, logout or one of the eight transactions) a disabled
\* account of the list is either removed by an accepted delete that names it
\* or stays in the list unchanged, status and balance included; an accepted
\* withdrawal, paybill, deposit, transfer or disable never acted on a disabled
\* account, an accepted transfer never had a disabled destination, in admin
\* sessions too; and delete and changeplan are not refused for being disabled.
C28_DisabledIsFrozen ==
  [][result'.msg # NoResult.msg =>
       /\ IF result'.ok /\ result'.msg = DeletedOk
          THEN SelectSeq(accounts', is_disabled)
                 = LET Kept(acct) ==
                         /\ is_disabled(acct)
                         /\ ~(/\ acct.holder_name = Last(transactions').account_holder_name
                              /\ acct.account_number = Last(transactions').account_number)
                   IN SelectSeq(accounts, Kept)
          ELSE /\ Len(accounts') = Len(accounts)
               /\ \A i \in 1..Len(accounts) :
                    is_disabled(accounts[i]) => accounts'[i] = accounts[i]
       /\ (result'.ok /\ result'.msg \in {WithdrawalOk, TransferOk, PaybillOk,
                                          DepositOk, DisabledOk}) =>
            ~is_disabled(ActedOn(Last(transactions')))
       /\ (result'.ok /\ result'.msg = TransferOk) =>
            \A s \in Numbers, t \in Targets, h \in HolderNames :
              \/ ~is_disabled(AccountAt(find_account_by_number(t)))
              \/ ~process_transfer(s, t, result'.args[1], h)
       /\ \A i \in 1..Len(accounts) :
            is_disabled(accounts[i]) =>
              validate_account_exists(accounts[i]) = NoError]_vars

\* In an admin session Alice's 00001 was disabled and a transfer naming it was
\* then rejected: the account is still in the list with its balance of 2300.00.
C28_Witness ==
  /\ AdminSession
  /\ result = Fail("Source or destination account is disabled.")
  /\ transactions = <<create_disable(Alice, N1)>>
  /\ accounts[1].status = "D"
  /\ accounts[1].balance = 230000

NumberExists == Fail("Account number already exists.")

\* A name of exactly MAX_NAME_LENGTH characters.
FullName == SubSeq(LongName, 1, MAX_NAME_LENGTH)

\* The errors of validate_create.
CreateErrors ==
  {"Account holder name must be at most 20 characters.",
   "Initial balance cannot be negative.",
   "Maximum account balance is $99999.99.",
   "Account number already exists."}

\* C29: the number generated for Create is never the number of an account in
\* the list, so process_create never returns 'Account number already
\* exists.'; in an admin session a create with a name of at most 20
\* characters and a balance from 0 to 99999.99, both ends included, succeeds.
C29_CreateNeverCollides ==
  /\ [](LET exists == find_account_by_number(generate_account_number) # 0
        IN /\ ~exists
           /\ result # NumberExists
           /\ \A name \in CreateNames \cup {FullName, EmptyStr},
                 b \in CreateBalances \cup {0, MAX_ACCOUNT_BALANCE} :
                (Len(name) <= MAX_NAME_LENGTH /\ b >= 0 /\ b <= MAX_ACCOUNT_BALANCE) =>
                  validate_create(name, b, exists) = NoError)
  /\ [][(AdminSession /\ ~result'.ok /\ result'.msg \in CreateErrors) =>
          \A name \in CreateNames, b \in CreateBalances :
            (Len(name) <= MAX_NAME_LENGTH /\ b >= 0 /\ b <= MAX_ACCOUNT_BALANCE) =>
              ~process_create(name, b)]_vars

\* After the delete of Alice's 00002 an admin create for Bob with 50000.00 was
\* accepted under the number 00008, one more than the largest number left.
C29_Witness ==
  /\ AdminSession
  /\ result.ok
  /\ result.msg = CreatedOk
  /\ Len(accounts) = 5
  /\ transactions = <<create_delete(Alice, N2),
                      create_account(Bob, <<"0", "0", "0", "0", "8">>, 5000000)>>

====
